---- MODULE Spec2Model ----
(***************************************************************************)
(* Model of the useDragSelection hook (src/src/useDragSelection.js).       *)
(*                                                                         *)
(* The hook's React state cells are the variables dragStart, dragEnd,      *)
(* isMouseDown, selectionBox, showSelection, selectedIndex and items.      *)
(* A handler created by a render reads the values that render captured.    *)
(* The pointer handlers are React event handlers: their state updates are  *)
(* batched, the component re-renders when the handler returns and the      *)
(* effect of lines 65-85 runs when its dependencies changed, so each       *)
(* pointer action below is the handler, the re-render and the effect.      *)
(* addItem is called by the rendering layer while it commits a render      *)
(* (once per mounting item, all calls from that render's closure), so what *)
(* each call reads is the items array that render captured, while setItems *)
(* appends to the queued state; React re-renders after the commit.  The    *)
(* action AddItems is one such commit: its addItem calls and the re-render.*)
(*                                                                         *)
(* Coordinates: an event carries viewport coordinates clientX/clientY and  *)
(* document coordinates pageX/pageY = client + scroll offset.  The target  *)
(* and the items are laid out in the document, so getBoundingClientRect    *)
(* returns their document box shifted by the scroll offset.                *)
(***************************************************************************)
EXTENDS Integers, Sequences, FiniteSets, TLC

\* ------------------------------------------------------------- bounds
MaxCoord == 2
MaxItems == 2
MaxBatch == 2
MaxScroll == 1

Coords == (0 - 1)..MaxCoord
Scrolls == {0, MaxScroll}
Null == [null |-> TRUE]

\* The item handles the rendering layer may register.
ItemIds == {1, 2}

\* The events the platform can deliver: viewport coordinates and the
\* pressed-buttons bitmask (0 = none, 1 = primary).  A pointer-down reports
\* the pressed button; a move reports it or, after a missed button-up, none
\* (those moves are taken on the diagonal, inside and outside the target).
DownEvents == [clientX : Coords, clientY : Coords, buttons : {1}]
MoveEvents ==
    DownEvents \cup {[clientX |-> c, clientY |-> c, buttons |-> 0] : c \in Coords}

VARIABLES
    dragStart,      \* useState(null), line 34
    dragEnd,        \* useState(null), line 40
    isMouseDown,    \* useState(false), line 41
    selectionBox,   \* useState(null), line 43
    showSelection,  \* useState(false), line 44
    selectedIndex,  \* useState(new Set([])), line 45
    items,          \* useState([]), line 48
    margin,         \* let margin = getTargetMargin(targetRef), line 46
    targetCurrent,  \* targetRef.current is set (environment)
    scroll,         \* window.scrollX / window.scrollY (environment)
    emitted,        \* the onSelectionChange calls made by the latest step
    thrown,         \* the latest step ended in an uncaught TypeError
    last,           \* which handler ran in the latest step, and its outcome
    probe           \* arguments and results of the geometry helpers' calls

stateVars == <<dragStart, dragEnd, isMouseDown, selectionBox, showSelection,
               selectedIndex, items>>
vars == <<dragStart, dragEnd, isMouseDown, selectionBox, showSelection,
          selectedIndex, items, margin, targetCurrent, scroll,
          emitted, thrown, last, probe>>

\* ------------------------------------------------------------- layout
\* Document-space box of the target element.
TargetDocBox == [left |-> 0, top |-> 0, right |-> 1, bottom |-> 1]

\* Document-space boxes of the items.
ItemDocBox(item) ==
    IF item = 1 THEN [left |-> 0, top |-> 0, width |-> 0, height |-> 0]
    ELSE [left |-> 1, top |-> 1, width |-> 1, height |-> 0]

\* item.getBoundingClientRect(): the box in viewport coordinates.
getBoundingClientRect(item, scr) ==
    [left   |-> ItemDocBox(item).left - scr.x,
     top    |-> ItemDocBox(item).top - scr.y,
     width  |-> ItemDocBox(item).width,
     height |-> ItemDocBox(item).height]

pageX(evt, scr) == evt.clientX + scr.x

\* Mutant of pageY: the viewport coordinate is taken for the page coordinate.
pageYClient(evt, scr) == evt.clientY

pageY(evt, scr) == evt.clientY + scr.y

Min(a, b) == IF a <= b THEN a ELSE b
Abs(a) == IF a < 0 THEN 0 - a ELSE a

\* ------------------------------------------------------------- helpers
\* getTargetMargin, lines 87-96: undefined when target.current is not set.
getTargetMargin(current, scr) ==
    IF ~current THEN Null
    ELSE LET boundingBox == [top    |-> TargetDocBox.top - scr.y,
                             left   |-> TargetDocBox.left - scr.x,
                             bottom |-> TargetDocBox.bottom - scr.y,
                             right  |-> TargetDocBox.right - scr.x]
         IN [top    |-> boundingBox.top + scr.y,
             left   |-> boundingBox.left + scr.x,
             bottom |-> boundingBox.bottom + scr.y,
             right  |-> boundingBox.right + scr.x]

\* Mutant of calculateSelectionBox: width and height keep their sign.
calculateSelectionBoxSigned(start, end, cStart, cEnd) ==
    [left   |-> Min(cStart.x, cEnd.x),
     top    |-> Min(cStart.y, cEnd.y),
     width  |-> end.x - start.x,
     height |-> end.y - start.y]

\* calculateSelectionBox, lines 98-103: left and top read the render's
\* dragStart/dragEnd (cStart, cEnd), width and height read the arguments.
calculateSelectionBox(start, end, cStart, cEnd) ==
    [left   |-> Min(cStart.x, cEnd.x),
     top    |-> Min(cStart.y, cEnd.y),
     width  |-> Abs(start.x - end.x),
     height |-> Abs(start.y - end.y)]

\* Mutant of boxesIntersect: strict comparisons, touching boxes do not meet.
boxesIntersectStrict(boxA, boxB) ==
    /\ boxA.left < boxB.left + boxB.width
    /\ boxA.left + boxA.width > boxB.left
    /\ boxA.top < boxB.top + boxB.height
    /\ boxA.top + boxA.height > boxB.top

\* boxesIntersect, lines 105-109.
boxesIntersect(boxA, boxB) ==
    /\ boxA.left <= boxB.left + boxB.width
    /\ boxA.left + boxA.width >= boxB.left
    /\ boxA.top <= boxB.top + boxB.height
    /\ boxA.top + boxA.height >= boxB.top

\* Mutant of isWithinTarget: strict comparisons, a point on an edge is out.
isWithinTargetStrict(px, py, m) ==
    [left   |-> px - m.left > 0,
     top    |-> py - m.top > 0,
     right  |-> m.right - px > 0,
     bottom |-> m.bottom - py > 0]

\* isWithinTarget, lines 166-173 (m is a margin, not undefined).
isWithinTarget(px, py, m) ==
    [left   |-> px - m.left >= 0,
     top    |-> py - m.top >= 0,
     right  |-> m.right - px >= 0,
     bottom |-> m.bottom - py >= 0]

\* Object.values(...).every(point => point === true), lines 151-153.
isValidStart(px, py, m) ==
    LET w == isWithinTarget(px, py, m)
    IN w.left /\ w.top /\ w.right /\ w.bottom

\* a || b on numbers, lines 123-124: a missing (undefined) or zero left
\* operand yields the right operand.
OrElse(obj, field, fallback) ==
    IF obj = Null THEN fallback
    ELSE IF obj[field] = 0 THEN fallback
    ELSE obj[field]

\* The point onMouseMove stores in dragEnd, lines 122-135.
tempPoint(evt, end, m) ==
    LET seed == [x |-> OrElse(end, "x", evt.clientX),
                 y |-> OrElse(end, "y", evt.clientY)]
        _isWithinRange == isWithinTarget(evt.clientX, evt.clientY, m)
        afterY == IF _isWithinRange.top /\ _isWithinRange.bottom
                  THEN [seed EXCEPT !.y = evt.clientY] ELSE seed
    IN IF _isWithinRange.left /\ _isWithinRange.right
       THEN [afterY EXCEPT !.x = evt.clientX] ELSE afterY

\* items.forEach of the effect, lines 68-80, from index i (0-based) on:
\* newIndexes starts as a copy of selectedIndex (sel) and each index is
\* added or deleted by comparing the item's box with the selection box.
RECURSIVE forEachItem(_, _, _, _, _, _)
forEachItem(i, its, box, sel, newIndexes, scr) ==
    IF i >= Len(its) THEN newIndexes
    ELSE LET itemBox == getBoundingClientRect(its[i + 1], scr)
             isIntersecting == boxesIntersect(box, itemBox)
             next == IF isIntersecting /\ i \notin sel
                         THEN newIndexes \cup {i}
                     ELSE IF ~isIntersecting /\ i \in sel
                         THEN newIndexes \ {i}
                     ELSE newIndexes
         IN forEachItem(i + 1, its, box, sel, next, scr)

\* Mutant of selectionEffect: indices are added but never deleted.
selectionEffectNoDelete(start, end, its, sel, scr) ==
    IF start = Null \/ end = Null
    THEN [ran |-> FALSE, newIndexes |-> sel, calls |-> <<>>, box |-> Null]
    ELSE LET box == calculateSelectionBox(start, end, start, end)
             newIndexes == sel \cup forEachItem(0, its, box, sel, sel, scr)
         IN [ran |-> TRUE,
             newIndexes |-> newIndexes,
             calls |-> <<newIndexes>>,
             box |-> box]

\* Mutant of selectionEffect: the caller is notified only of a changed set.
selectionEffectNotifyOnChange(start, end, its, sel, scr) ==
    IF start = Null \/ end = Null
    THEN [ran |-> FALSE, newIndexes |-> sel, calls |-> <<>>, box |-> Null]
    ELSE LET box == calculateSelectionBox(start, end, start, end)
             newIndexes == forEachItem(0, its, box, sel, sel, scr)
         IN [ran |-> TRUE,
             newIndexes |-> newIndexes,
             calls |-> IF newIndexes = sel THEN <<>> ELSE <<newIndexes>>,
             box |-> box]

\* The effect of lines 65-85 for a render that captured start, end, its and
\* sel: whether it got past the early return of line 66, the set it stores
\* (line 82), the onSelectionChange calls it makes (line 83) and the box it
\* stores (line 84).
selectionEffect(start, end, its, sel, scr) ==
    IF start = Null \/ end = Null
    THEN [ran |-> FALSE, newIndexes |-> sel, calls |-> <<>>, box |-> Null]
    ELSE LET box == calculateSelectionBox(start, end, start, end)
             newIndexes == forEachItem(0, its, box, sel, sel, scr)
         IN [ran |-> TRUE,
             newIndexes |-> newIndexes,
             calls |-> <<newIndexes>>,
             box |-> box]

\* ------------------------------------------------------------- initial state
Init ==
    /\ dragStart = Null
    /\ dragEnd = Null
    /\ isMouseDown = FALSE
    /\ selectionBox = Null
    /\ showSelection = FALSE
    /\ selectedIndex = {}
    /\ items = <<>>
    /\ targetCurrent = FALSE
    /\ scroll = [x |-> 0, y |-> 0]
    /\ margin = Null
    /\ emitted = <<>>
    /\ thrown = FALSE
    /\ last = "init"
    /\ probe = Null

\* A re-render: the closures capture the current state and a fresh margin.
Rerender ==
    margin' = getTargetMargin(targetCurrent, scroll)

\* A handler that threw before any setState: nothing is updated.
Throw(tag) ==
    /\ last' = tag
    /\ thrown' = TRUE
    /\ emitted' = <<>>
    /\ UNCHANGED <<stateVars, margin, targetCurrent, scroll, probe>>

\* A handler that returned without any setState: no re-render.
Ignore(tag) ==
    /\ last' = tag
    /\ thrown' = FALSE
    /\ emitted' = <<>>
    /\ UNCHANGED <<stateVars, margin, targetCurrent, scroll, probe>>

\* ------------------------------------------------------------- handlers
\* Mutant of resetSelection: the Selected Set is not cleared.
resetSelectionKeepsSelected ==
    /\ dragStart' = Null
    /\ dragEnd' = Null
    /\ UNCHANGED selectedIndex

\* Mutant of resetSelection: end is not cleared.
resetSelectionKeepsEnd ==
    /\ dragStart' = Null
    /\ UNCHANGED dragEnd
    /\ selectedIndex' = {}

\* resetSelection, lines 175-179, as the values it leaves when no later
\* setState of the same handler overrides them.
resetSelection ==
    /\ dragStart' = Null
    /\ dragEnd' = Null
    /\ selectedIndex' = {}

\* Mutant of onMouseUpBody: the reset notifies the caller of the empty set.
onMouseUpBodyNotifies(tag) ==
    /\ last' = tag
    /\ showSelection' = FALSE
    /\ selectionBox' = Null
    /\ isMouseDown' = FALSE
    /\ resetSelection
    /\ UNCHANGED <<items, targetCurrent, scroll, probe>>
    /\ Rerender
    /\ emitted' = <<{}>>
    /\ thrown' = FALSE

\* onMouseUp, lines 140-147, then the re-render; the effect returns at
\* line 66 because dragStart is null.
onMouseUpBody(tag) ==
    /\ last' = tag
    /\ showSelection' = FALSE
    /\ selectionBox' = Null
    /\ isMouseDown' = FALSE
    /\ resetSelection
    /\ UNCHANGED <<items, targetCurrent, scroll, probe>>
    /\ Rerender
    /\ emitted' = <<>>
    /\ thrown' = FALSE

\* Mutant of onMouseUp: the pointer-up notifies the caller of the empty set.
onMouseUpNotifies == onMouseUpBodyNotifies("up")

onMouseUp == onMouseUpBody("up")

\* onMouseDown, lines 149-164, then the re-render; the effect returns at
\* line 66 because dragEnd is null.  Of resetSelection (line 159) the
\* setDragStart(null) is overridden by line 163 in the same batch.
onMouseDown(evt) ==
    IF margin = Null
    THEN Throw("down_throw")
    ELSE IF ~isValidStart(pageX(evt, scroll), pageY(evt, scroll), margin)
    THEN Ignore("down_rejected")
    ELSE /\ last' = "down"
         /\ dragEnd' = Null
         /\ selectedIndex' = {}
         /\ showSelection' = TRUE
         /\ isMouseDown' = TRUE
         /\ dragStart' = [x |-> pageX(evt, scroll), y |-> pageY(evt, scroll)]
         /\ UNCHANGED <<selectionBox, items, targetCurrent, scroll, probe>>
         /\ Rerender
         /\ emitted' = <<>>
         /\ thrown' = FALSE

\* Mutant of isButtonPressed: a missed button-up is never noticed.
isButtonPressedAlways(evt) == TRUE

\* const isButtonPressed = !!evt.buttons, line 116.
isButtonPressed(evt) == evt.buttons # 0

\* onMouseMove, lines 111-138, then the re-render and the effect of lines
\* 65-85 (dragEnd is a new object on every accepted move, so the effect's
\* dependencies always changed), then the re-render of the effect's updates.
onMouseMove(evt) ==
    IF ~isMouseDown
    THEN Ignore("move_idle")
    ELSE IF ~isButtonPressed(evt)
    THEN onMouseUpBody("move_up")
    ELSE IF margin = Null
    THEN Throw("move_throw")
    ELSE LET end == tempPoint(evt, dragEnd, margin)
             eff == selectionEffect(dragStart, end, items, selectedIndex, scroll)
         IN /\ last' = "move"
            /\ dragEnd' = end
            /\ selectedIndex' = eff.newIndexes
            /\ selectionBox' = IF eff.ran THEN eff.box ELSE selectionBox
            /\ emitted' = eff.calls
            /\ UNCHANGED <<dragStart, isMouseDown, showSelection, items,
                           targetCurrent, scroll, probe>>
            /\ Rerender
            /\ thrown' = FALSE

\* Mutant of addItem: a new item is put at the front of the registry.
addItemPrepends(item, closureItems, queued) ==
    IF item = 0 \/ (\E i \in 1..Len(closureItems) : closureItems[i] = item)
    THEN queued
    ELSE <<item>> \o queued

\* addItem, lines 59-63, as one call: item 0 is a null item, closureItems
\* is the items array of the render whose addItem is called, queued is the
\* state setItems updates; the result is the queued state after the call.
addItem(item, closureItems, queued) ==
    IF item = 0 \/ (\E i \in 1..Len(closureItems) : closureItems[i] = item)
    THEN queued
    ELSE Append(queued, item)

\* The addItem calls of one commit, in order, all from the same closure.
RECURSIVE addItemCalls(_, _, _)
addItemCalls(batch, closureItems, queued) ==
    IF batch = <<>> THEN queued
    ELSE addItemCalls(Tail(batch), closureItems,
                      addItem(Head(batch), closureItems, queued))

\* One commit of the rendering layer: its addItem calls, then the re-render
\* (the effect's dependencies are unchanged, so the effect does not run).
addItems(batch) ==
    /\ Len(addItemCalls(batch, items, items)) <= MaxItems
    /\ items' = addItemCalls(batch, items, items)
    /\ UNCHANGED <<dragStart, dragEnd, isMouseDown, selectionBox,
                   showSelection, selectedIndex, targetCurrent, scroll,
                   probe>>
    /\ Rerender
    /\ emitted' = <<>>
    /\ thrown' = FALSE
    /\ last' = "addItem"

\* A re-render the parent causes: the effect's dependencies are unchanged,
\* so the effect does not run; the margin is recomputed.
render ==
    /\ margin # getTargetMargin(targetCurrent, scroll)
    /\ UNCHANGED <<stateVars, targetCurrent, scroll, probe>>
    /\ Rerender
    /\ emitted' = <<>>
    /\ thrown' = FALSE
    /\ last' = "render"

\* Environment: the target element mounts (targetRef.current is set).
setTarget ==
    /\ ~targetCurrent
    /\ targetCurrent' = TRUE
    /\ UNCHANGED <<stateVars, margin, scroll, probe>>
    /\ emitted' = <<>>
    /\ thrown' = FALSE
    /\ last' = "env"

\* Environment: the page scrolls vertically between drags (scrolling during
\* a drag is outside the hook's scope).
scrollTo(sy) ==
    /\ ~isMouseDown
    /\ scroll.y # sy
    /\ scroll' = [x |-> 0, y |-> sy]
    /\ UNCHANGED <<stateVars, margin, targetCurrent, probe>>
    /\ emitted' = <<>>
    /\ thrown' = FALSE
    /\ last' = "env"

MouseDown == \E evt \in DownEvents : onMouseDown(evt)
MouseMove == \E evt \in MoveEvents : onMouseMove(evt)
MouseUp == onMouseUp
\* The addItem calls one commit can make: a null item (an unmounting ref), or
\* up to MaxBatch items, possibly the same item more than once.
Batches == {<<0>>} \cup UNION {[1..n -> ItemIds] : n \in 1..MaxBatch}
AddItems == \E batch \in Batches : addItems(batch)
Render == render
SetTarget == setTarget
Scroll == \E sy \in Scrolls : scrollTo(sy)

Next ==
    \/ MouseDown
    \/ MouseMove
    \/ MouseUp
    \/ AddItems
    \/ Render
    \/ SetTarget
    \/ Scroll

Spec == Init /\ [][Next]_vars

\* ------------------------------------------------------------- geometry
\* The geometry helpers on their own: two pairs of points are drawn, the
\* rectangle of each pair is built as line 67 builds it, then the two
\* rectangles are compared as line 72 compares them, in both orders.
GeomCoords == 0..MaxCoord
GeomPoints == [x : GeomCoords, y : GeomCoords]

GeomInit ==
    /\ dragStart = Null
    /\ dragEnd = Null
    /\ isMouseDown = FALSE
    /\ selectionBox = Null
    /\ showSelection = FALSE
    /\ selectedIndex = {}
    /\ items = <<>>
    /\ targetCurrent = FALSE
    /\ scroll = [x |-> 0, y |-> 0]
    /\ margin = Null
    /\ emitted = <<>>
    /\ thrown = FALSE
    /\ last = "init"
    /\ probe \in [a : GeomPoints, b : GeomPoints, c : GeomPoints,
                  d : GeomPoints, stage : {"points"},
                  boxA : {Null}, boxB : {Null},
                  ab : {FALSE}, ba : {FALSE}]

\* calculateSelectionBox called on each pair of points.
applyCalculateSelectionBox ==
    /\ probe.stage = "points"
    /\ probe' = [probe EXCEPT
                    !.stage = "boxes",
                    !.boxA = calculateSelectionBox(probe.a, probe.b,
                                                   probe.a, probe.b),
                    !.boxB = calculateSelectionBox(probe.c, probe.d,
                                                   probe.c, probe.d)]
    /\ UNCHANGED <<stateVars, margin, targetCurrent, scroll, emitted,
                   thrown, last>>

\* boxesIntersect called on the two rectangles, in both argument orders.
applyBoxesIntersect ==
    /\ probe.stage = "boxes"
    /\ probe' = [probe EXCEPT
                    !.stage = "compared",
                    !.ab = boxesIntersect(probe.boxA, probe.boxB),
                    !.ba = boxesIntersect(probe.boxB, probe.boxA)]
    /\ UNCHANGED <<stateVars, margin, targetCurrent, scroll, emitted,
                   thrown, last>>

GeomNext ==
    \/ applyCalculateSelectionBox
    \/ applyBoxesIntersect

SpecGeom == GeomInit /\ [][GeomNext]_vars

\* ------------------------------------------------------------- properties
\* The rectangle of two points: left/top are the minima, width/height the
\* distances.
RectOf(a, b) ==
    [left   |-> IF a.x <= b.x THEN a.x ELSE b.x,
     top    |-> IF a.y <= b.y THEN a.y ELSE b.y,
     width  |-> IF a.x <= b.x THEN b.x - a.x ELSE a.x - b.x,
     height |-> IF a.y <= b.y THEN b.y - a.y ELSE a.y - b.y]

\* The integer points a box can cover in the model.
Plane == (0 - (MaxCoord + MaxScroll + 2))..(MaxCoord + MaxScroll + 2)

\* A point lies in a closed box.
Covers(r, px, py) ==
    /\ r.left <= px /\ px <= r.left + r.width
    /\ r.top <= py /\ py <= r.top + r.height

\* Two closed boxes share a point (boxes have integer corners).
Overlap(r1, r2) ==
    \E px \in Plane, py \in Plane : Covers(r1, px, py) /\ Covers(r2, px, py)

\* The registry indices whose current box meets the drag rectangle.
Intersected ==
    {i \in 0..(Len(items) - 1) :
        Overlap(RectOf(dragStart, dragEnd),
                getBoundingClientRect(items[i + 1], scroll))}

\* A point is outside a margin: some edge test fails.
Outside(px, py, m) ==
    px < m.left \/ px > m.right \/ py < m.top \/ py > m.bottom

FullyReset ==
    /\ isMouseDown = FALSE
    /\ dragStart = Null
    /\ dragEnd = Null
    /\ selectedIndex = {}
    /\ showSelection = FALSE
    /\ selectionBox = Null

\* C1: after the reconciliation of an accepted move the Selected Set is
\* exactly the set of registry indices whose current item box intersects the
\* rectangle of start and end, whatever the set held before the move.
C1_SelectedIsIntersected ==
    last = "move" => selectedIndex = Intersected

\* C1 witness: a move whose rectangle covers both registered items.
C1_Witness ==
    /\ last = "move"
    /\ Len(items) = 2
    /\ selectedIndex = {0, 1}

\* C2: a pointer-up leaves the machine fully reset: drag inactive, start and
\* end absent, Selected Set empty, drag box hidden, rectangle absent.
C2_UpResets ==
    last = "up" => FullyReset

\* C2 witness: a pointer-up with items registered.
C2_Witness ==
    /\ last = "up"
    /\ Len(items) = 2
    /\ FullyReset

\* C3: a pointer-down at a point outside the margin changes no state
\* variable, emits no notification and raises nothing; a point on a margin
\* edge is inside: that pointer-down starts a drag at the point.  (Each
\* implication "the step is onMouseDown(evt) => result" is written with its
\* result first.)
C3_InvalidStartNoChange ==
    [][(last' \in {"down", "down_rejected"} /\ margin # Null) =>
       \A evt \in DownEvents :
          IF Outside(pageX(evt, scroll), pageY(evt, scroll), margin)
          THEN \/ /\ UNCHANGED stateVars
                  /\ emitted' = <<>>
                  /\ thrown' = FALSE
               \/ ~onMouseDown(evt)
          ELSE \/ /\ isMouseDown'
                  /\ dragStart' = [x |-> pageX(evt, scroll),
                                   y |-> pageY(evt, scroll)]
               \/ ~onMouseDown(evt)]_vars

\* C3 witness: a pointer-down was rejected during a drag that has a
\* selection.
C3_Witness ==
    /\ last = "down_rejected"
    /\ isMouseDown
    /\ selectedIndex # {}

\* C4: the registry holds each item at most once.
C4_NoDuplicateItems ==
    \A i, j \in 1..Len(items) : i # j => items[i] # items[j]

\* C5: on an accepted move with a previous end inside the margin, each axis of the new end is
\* the raw event coordinate when that coordinate is within the margin on that
\* axis, and the previous end's coordinate otherwise (a previous coordinate
\* of 0 included).
C5_AxisClamping ==
    [][(last' = "move") =>
       \A evt \in MoveEvents :
          (/\ isMouseDown /\ evt.buttons # 0
           /\ dragEnd # Null /\ margin # Null
           /\ ~Outside(dragEnd.x, dragEnd.y, margin)
           /\ onMouseMove(evt)) =>
              /\ dragEnd'.x = IF margin.left <= evt.clientX
                                  /\ evt.clientX <= margin.right
                              THEN evt.clientX ELSE dragEnd.x
              /\ dragEnd'.y = IF margin.top <= evt.clientY
                                  /\ evt.clientY <= margin.bottom
                              THEN evt.clientY ELSE dragEnd.y]_vars

\* C6: the live point end, when present, lies within the margin on both
\* axes.
C6_EndWithinMargin ==
    (dragEnd # Null /\ margin # Null) =>
        /\ margin.left <= dragEnd.x /\ dragEnd.x <= margin.right
        /\ margin.top <= dragEnd.y /\ dragEnd.y <= margin.bottom

\* C7: from a Dragging state a move that reports no pressed buttons is a
\* step of the explicit pointer-up: the same resulting state, no
\* notification, end not updated from the move's coordinates.
C7_ImplicitUpIsUp ==
    [][(last' \in {"move", "move_up"}) =>
       \A evt \in MoveEvents :
          (isMouseDown /\ evt.buttons = 0 /\ onMouseMove(evt)) =>
              /\ onMouseUpBody(last')
              /\ emitted' = <<>>
              /\ dragEnd' = Null]_vars

\* C7 witness: an implicit pointer-up happened.
C7_Witness ==
    /\ last = "move_up"
    /\ FullyReset

\* C8: every accepted move makes exactly one onSelectionChange call, and it
\* carries the Selected Set computed for that move.
C8_OneNotificationPerMove ==
    last = "move" => emitted = <<selectedIndex>>

\* C8 witness: a move that selected nothing still notified the caller.
C8_Witness ==
    /\ last = "move"
    /\ selectedIndex = {}
    /\ emitted = <<{}>>

\* C9: onSelectionChange is invoked only by the reconciliation of an
\* accepted move: no other step makes a call.
C9_NotifyOnlyOnMove ==
    last # "move" => emitted = <<>>

\* C9 witness: an implicit pointer-up reset the machine without a call.
C9_Witness ==
    /\ last = "move_up"
    /\ emitted = <<>>
    /\ Len(items) = 2

\* C10: while the margin is absent a pointer-down is a silent no-op: no
\* state variable changes and no exception is raised.
C10_AbsentMarginSilent ==
    [][(last' \in {"down", "down_rejected", "down_throw"}) =>
       \A evt \in DownEvents :
          (margin = Null /\ onMouseDown(evt)) =>
              /\ UNCHANGED stateVars
              /\ thrown' = FALSE]_vars

\* C11: a move or an up received while the drag is inactive leaves every
\* state variable at its value and emits no notification.  (The implication
\* "the step is the handler => result" is written with its result first.)
C11_IdleMoveUpNoChange ==
    [][(~isMouseDown /\ last' \in {"up", "move", "move_idle", "move_up"}) =>
          \/ /\ UNCHANGED stateVars
             /\ emitted' = <<>>
          \/ ~(onMouseUp \/ \E evt \in MoveEvents : onMouseMove(evt))]_vars

\* C11 witness: a move arrived while Idle, with an item registered.
C11_Witness ==
    /\ last = "move_idle"
    /\ items # <<>>
    /\ FullyReset

\* C12: a pointer-down at a page point p inside the margin results in drag
\* active, start = p, end absent, Selected Set empty and drag box visible,
\* from Idle and from any other state.
C12_ValidDownStarts ==
    [][(last' \in {"down", "down_rejected"} /\ margin # Null) =>
       \A evt \in DownEvents :
          LET p == [x |-> evt.clientX + scroll.x, y |-> evt.clientY + scroll.y]
          IN ~Outside(p.x, p.y, margin) =>
                \/ /\ isMouseDown'
                   /\ dragStart' = p
                   /\ dragEnd' = Null
                   /\ selectedIndex' = {}
                   /\ showSelection'
                \/ ~onMouseDown(evt)]_vars

\* C12 witness: a valid pointer-down arrived during a drag that had already
\* exposed a rectangle, on a scrolled page.
C12_Witness ==
    /\ last = "down"
    /\ selectionBox # Null
    /\ scroll.y # 0

\* C13: the exposed rectangle is absent unless both start and end are
\* present, and when present it is the rectangle of the current start and end.
C13_BoxOnlyWithStartAndEnd ==
    selectionBox # Null =>
        /\ dragStart # Null
        /\ dragEnd # Null
        /\ selectionBox = RectOf(dragStart, dragEnd)

\* C14: while a drag session lasts (the drag is active before and after the
\* step) no event changes start.
C14_StartFixedInSession ==
    [][(isMouseDown /\ isMouseDown') => dragStart' = dragStart]_vars

\* C16: on every accepted move the point stored in end is the move event's
\* page point (client + scroll offset) whenever that page point lies inside
\* the Margin, so that end is in the document space of start and the Margin.
C16_EndIsPagePoint ==
    [][(last' = "move") =>
         \A evt \in MoveEvents :
            LET p == [x |-> evt.clientX + scroll.x, y |-> evt.clientY + scroll.y]
            IN ~Outside(p.x, p.y, margin) =>
                  \/ dragEnd' = p
                  \/ ~onMouseMove(evt)]_vars

\* The points of the model's plane.
Points == [x : Coords, y : Coords]

\* C17: for all points a and b the rectangle built from them has left =
\* min(a.x,b.x), top = min(a.y,b.y), width = |a.x-b.x| >= 0 and height =
\* |a.y-b.y| >= 0 and equals the rectangle built from (b,a); after every
\* accepted move the exposed rectangle is this rectangle of start and end.
C17_RectangleNormalized ==
    /\ \A a \in Points, b \in Points :
          LET r == calculateSelectionBox(a, b, a, b)
          IN /\ r = RectOf(a, b)
             /\ r.width >= 0 /\ r.height >= 0
             /\ r = calculateSelectionBox(b, a, b, a)
    /\ last = "move" =>
          /\ selectionBox = RectOf(dragStart, dragEnd)
          /\ selectionBox = RectOf(dragEnd, dragStart)
          /\ selectionBox.width >= 0 /\ selectionBox.height >= 0

\* C17 witness: an accepted move that ends left of and above start.
C17_Witness ==
    /\ last = "move"
    /\ dragEnd.x < dragStart.x
    /\ dragEnd.y < dragStart.y
    /\ selectionBox = [left |-> dragEnd.x, top |-> dragEnd.y,
                       width |-> dragStart.x - dragEnd.x,
                       height |-> dragStart.y - dragEnd.y]

\* A sequence starts with another one.
IsPrefix(s, t) ==
    /\ Len(s) <= Len(t)
    /\ \A i \in 1..Len(s) : t[i] = s[i]

\* C19: the registry is append-only and ordered by registration: every step
\* keeps the registered items at their indices, only addItem changes the
\* registry, addItem of one new item appends it at the end, addItem of a
\* null item changes nothing, and every index of the Selected Set is an
\* index of the registry.
C19_RegistryAppendOnly ==
    [][/\ IsPrefix(items, items')
       /\ last' # "addItem" => items' = items
       /\ selectedIndex' \subseteq 0..(Len(items') - 1)
       /\ last' = "addItem" =>
             /\ items' = items \/ ~addItems(<<0>>)
             /\ \A item \in ItemIds :
                   (\A i \in 1..Len(items) : items[i] # item) =>
                       \/ items' = Append(items, item)
                       \/ ~addItems(<<item>>)]_vars

\* C19 witness: a second item is registered while the first one is selected.
C19_Witness ==
    /\ last = "addItem"
    /\ items = <<1, 2>>
    /\ selectedIndex = {0}

\* C20: in every reachable state the drag is active exactly when start is
\* present and exactly when the drag box is marked visible, end is present
\* only while the drag is active, and while the drag is inactive the
\* Selected Set is empty and the drag rectangle is absent.
C20_LifecycleConsistent ==
    /\ isMouseDown <=> dragStart # Null
    /\ isMouseDown <=> showSelection
    /\ dragEnd # Null => isMouseDown
    /\ ~isMouseDown => selectedIndex = {} /\ selectionBox = Null

\* C20 witness: an active drag with start and end present, the box visible,
\* an item selected and the rectangle exposed.
C20_Witness ==
    /\ isMouseDown
    /\ showSelection
    /\ dragStart # Null
    /\ dragEnd # Null
    /\ selectedIndex # {}
    /\ selectionBox # Null

\* C18: the intersection test is symmetric and inclusive: for rectangles of
\* non-negative width and height the result is the same in both argument
\* orders and is true exactly when the closed rectangles share a point (an
\* edge or a corner suffices), so a zero-area rectangle intersects another
\* rectangle exactly when it lies inside it or on its boundary.
C18_IntersectSymmetricInclusive ==
    probe.stage = "compared" =>
        /\ probe.ab = probe.ba
        /\ probe.ab = Overlap(probe.boxA, probe.boxB)
        /\ (probe.boxA.width = 0 /\ probe.boxA.height = 0) =>
              (probe.ab = Covers(probe.boxB, probe.boxA.left, probe.boxA.top))

\* C18 witness: two rectangles of positive area that share only a corner
\* are reported as intersecting.
C18_Witness ==
    /\ probe.stage = "compared"
    /\ probe.boxA.width > 0 /\ probe.boxA.height > 0
    /\ probe.boxB.width > 0 /\ probe.boxB.height > 0
    /\ probe.boxA.left + probe.boxA.width = probe.boxB.left
    /\ probe.boxA.top + probe.boxA.height = probe.boxB.top
    /\ probe.ab
====
